---- MODULE Spec2Model ----
(***************************************************************************)
(* Model of the sort library and timing harness of src/tasks/task2.py and  *)
(* of the graph builder and connectivity algorithms of src/tasks/task3.py. *)
(*                                                                         *)
(* Python lists are objects: a list is an entry of a store (a sequence of  *)
(* list contents) and is named by its index in the store, so that copying, *)
(* slicing, in-place mutation and returning the argument itself are told   *)
(* apart.  Records are immutable tuples and are values.                    *)
(***************************************************************************)
EXTENDS Integers, Sequences, FiniteSets, TLC

VARIABLES
    data,             \* task2: contents of the caller's dataset (a list object)
    key,              \* task2: the key selector, as the field position it reads
    ret,              \* task2: what the last call returned to the caller
    taxi_data,        \* task3: list of (pickup, dropoff) pairs
    taxi_zone_lookup, \* task3: ids of the LocationID -> Zone mapping, in file order
    graph,            \* task3: the networkx graph
    built,            \* task3: build_graph has returned
    found,            \* task3: what the last connectivity call returned
    script,           \* drivers: the script whose module-level code is running
    pc,               \* drivers: the next module-level call of that script
    datasets,         \* drivers: the records loaded from the file of each scale
    graphs,           \* drivers: graph_small, graph_medium, graph_large
    measured          \* drivers: the measurements recorded so far

vars == <<data, key, ret, taxi_data, taxi_zone_lookup, graph, built, found,
          script, pc, datasets, graphs, measured>>
sortVars == <<data, key, ret>>
graphVars == <<taxi_data, taxi_zone_lookup, graph, built, found>>
driverVars == <<script, pc, datasets, graphs, measured>>

(***************************************************************************)
(* Bounds.                                                                 *)
(***************************************************************************)
MaxLen == 3      \* datasets have at most MaxLen records
MaxNode == 3     \* graphs handed directly to the traversals have ids 1..MaxNode
MaxPairs == 3    \* taxi_data has at most MaxPairs pairs


Range(f) == {f[i] : i \in DOMAIN f}

RECURSIVE SeqsUpTo(_, _)
SeqsUpTo(S, n) ==
    IF n = 0 THEN {<<>>}
    ELSE LET shorter == SeqsUpTo(S, n - 1)
         IN  shorter \cup {Append(s, x) : s \in {t \in shorter : Len(t) = n - 1}, x \in S}

(***************************************************************************)
(* task2.py: records and key selectors.                                    *)
(* A trip record is a tuple of numbers.  The model keeps two fields, so    *)
(* that the key field and a field that is not the key can differ; the      *)
(* empty tuple is a record on which every key selector x[k] fails          *)
(* (IndexError).  Field position p here is Python index p - 1.  A field    *)
(* takes one of two values, which gives ties and strict order.             *)
(***************************************************************************)
Fields == {1, 2}
Vals == {1, 2}
Records == {<<a, b>> : a \in Vals, b \in Vals} \cup {<<>>}

KeyFails(x, k) == k > Len(x)

\* Python's < on tuples: lexicographic, a proper prefix is smaller.
TupleLess(a, b) ==
    \/ \E i \in 1..Len(a) :
          /\ i <= Len(b)
          /\ a[i] < b[i]
          /\ \A j \in 1..(i - 1) : a[j] = b[j]
    \/ /\ Len(a) < Len(b)
       /\ \A j \in 1..Len(a) : a[j] = b[j]

\* Outcome of a call: it returned the list object id, or it raised.
Ok(store, id) == [raised |-> FALSE, store |-> store, id |-> id]
Raise(store) == [raised |-> TRUE, store |-> store, id |-> 0]

(***************************************************************************)
(* bubble_sort                                                             *)
(***************************************************************************)
Swap(d, j) == [d EXCEPT ![j] = d[j + 1], ![j + 1] = d[j]]

\* The two nested loops, on the list object id: i is Python's i, j is
\* Python's j + 1.
RECURSIVE bubble_loops(_, _, _, _, _)
bubble_loops(store, id, i, j, k) ==
    LET d == store[id]
        n == Len(d)
    IN  IF i >= n THEN Ok(store, id)
        ELSE IF j > n - i - 1 THEN bubble_loops(store, id, i + 1, 1, k)
        ELSE IF KeyFails(d[j], k) \/ KeyFails(d[j + 1], k) THEN Raise(store)
        ELSE IF d[j][k] > d[j + 1][k]
             THEN bubble_loops([store EXCEPT ![id] = Swap(d, j)], id, i, j + 1, k)
             ELSE bubble_loops(store, id, i, j + 1, k)

\* Mutant: the copy "data = data[:]" is missing.
bubble_sort_in_place(store, id, k) == bubble_loops(store, id, 0, 1, k)

bubble_sort(store, id, k) ==
    LET s == Append(store, store[id])      \* data = data[:]
    IN  bubble_loops(s, Len(s), 0, 1, k)

(***************************************************************************)
(* merge_sort                                                              *)
(***************************************************************************)
\* Mutant: a tie between the heads drops the right head instead of moving it.
RECURSIVE merge_loop_drop(_, _, _, _, _)
merge_loop_drop(store, l, r, d, k) ==
    IF Len(store[l]) > 0 /\ Len(store[r]) > 0
    THEN IF KeyFails(store[l][1], k) \/ KeyFails(store[r][1], k) THEN Raise(store)
         ELSE IF store[l][1][k] < store[r][1][k]
              THEN merge_loop_drop([store EXCEPT ![l] = Tail(@),
                                                 ![d] = Append(@, store[l][1])], l, r, d, k)
              ELSE IF store[l][1][k] = store[r][1][k]
                   THEN merge_loop_drop([store EXCEPT ![r] = Tail(@)], l, r, d, k)
                   ELSE merge_loop_drop([store EXCEPT ![r] = Tail(@),
                                                      ![d] = Append(@, store[r][1])], l, r, d, k)
    ELSE Ok([store EXCEPT ![d] = store[d] \o store[l] \o store[r]], d)

\* The while loop and the two extend calls: l, r, d are the list objects
\* left_half, right_half and the new data.
RECURSIVE merge_loop(_, _, _, _, _)
merge_loop(store, l, r, d, k) ==
    IF Len(store[l]) > 0 /\ Len(store[r]) > 0
    THEN IF KeyFails(store[l][1], k) \/ KeyFails(store[r][1], k) THEN Raise(store)
         ELSE IF store[l][1][k] < store[r][1][k]
              THEN merge_loop([store EXCEPT ![l] = Tail(@),             \* left_half.pop(0)
                                            ![d] = Append(@, store[l][1])], l, r, d, k)
              ELSE merge_loop([store EXCEPT ![r] = Tail(@),             \* right_half.pop(0)
                                            ![d] = Append(@, store[r][1])], l, r, d, k)
    ELSE Ok([store EXCEPT ![d] = store[d] \o store[l] \o store[r]], d)

RECURSIVE merge_sort(_, _, _)
merge_sort(store, id, k) ==
    IF Len(store[id]) > 1
    THEN LET mid == Len(store[id]) \div 2
             s1 == Append(store, SubSeq(store[id], 1, mid))             \* data[:mid]
             L == merge_sort(s1, Len(s1), k)
         IN  IF L.raised THEN L
             ELSE LET s2 == Append(L.store,
                                   SubSeq(L.store[id], mid + 1, Len(L.store[id])))  \* data[mid:]
                      R == merge_sort(s2, Len(s2), k)
                  IN  IF R.raised THEN R
                      ELSE LET s3 == Append(R.store, <<>>)              \* data = []
                           IN  merge_loop(s3, L.id, R.id, Len(s3), k)
    ELSE Ok(store, id)

(***************************************************************************)
(* quicksort                                                               *)
(***************************************************************************)
\* [x for x in seq if test(x)]
RECURSIVE Comprehend(_, _, _, _)
Comprehend(seq, pivot, k, lesser) ==
    IF seq = <<>> THEN <<>>
    ELSE LET x == Head(seq)
             keep == IF lesser THEN x[k] <= pivot[k] ELSE x[k] > pivot[k]
         IN  (IF keep THEN <<x>> ELSE <<>>) \o Comprehend(Tail(seq), pivot, k, lesser)

\* key_func(x) <= key_func(pivot) is evaluated for every x of data[1:], which
\* is not empty here, so the call raises as soon as the pivot or one of the
\* others has no key.
RECURSIVE quicksort(_, _, _)
quicksort(store, id, k) ==
    IF Len(store[id]) <= 1
    THEN Ok(store, id)                                                  \* return data
    ELSE LET pivot == store[id][1]
             rest == Tail(store[id])
         IN  IF KeyFails(pivot, k) \/ \E i \in 1..Len(rest) : KeyFails(rest[i], k)
             THEN Raise(store)
             ELSE LET s1 == Append(store, Comprehend(rest, pivot, k, TRUE))
                      L == quicksort(s1, Len(s1), k)
                      s2 == Append(L.store, Comprehend(Tail(L.store[id]), pivot, k, FALSE))
                      G == quicksort(s2, Len(s2), k)
                      s3 == Append(G.store, G.store[L.id] \o <<pivot>> \o G.store[G.id])
                  IN  Ok(s3, Len(s3))

(***************************************************************************)
(* heapsort, with heapq's heappush and heappop on a list (positions are    *)
(* Python's index + 1).  The heap compares the records themselves.         *)
(***************************************************************************)
\* heapq._siftdown(heap, startpos, pos), newitem being moved up from pos.
RECURSIVE siftdown(_, _, _, _)
siftdown(heap, startpos, pos, newitem) ==
    IF pos > startpos
    THEN LET parentpos == pos \div 2
         IN  IF TupleLess(newitem, heap[parentpos])
             THEN siftdown([heap EXCEPT ![pos] = heap[parentpos]], startpos, parentpos, newitem)
             ELSE [heap EXCEPT ![pos] = newitem]
    ELSE [heap EXCEPT ![pos] = newitem]

\* heapq._siftup(heap, pos): move the smaller child up to a leaf, then sift
\* newitem down from there.
RECURSIVE siftup(_, _, _, _)
siftup(heap, startpos, pos, newitem) ==
    LET childpos == 2 * pos
        rightpos == childpos + 1
        c == IF rightpos <= Len(heap) /\ ~TupleLess(heap[childpos], heap[rightpos])
             THEN rightpos ELSE childpos
    IN  IF childpos <= Len(heap)
        THEN siftup([heap EXCEPT ![pos] = heap[c]], startpos, c, newitem)
        ELSE siftdown(heap, startpos, pos, newitem)

heappush(heap, item) ==
    LET h == Append(heap, item)
    IN  siftdown(h, 1, Len(h), item)

\* heappop: the pair <<heap afterwards, item returned>>.
heappop(heap) ==
    LET lastelt == heap[Len(heap)]
        h == SubSeq(heap, 1, Len(heap) - 1)
    IN  IF h # <<>>
        THEN <<siftup(h, 1, 1, lastelt), h[1]>>
        ELSE <<h, lastelt>>

RECURSIVE push_all(_, _)
push_all(heap, values) ==
    IF values = <<>> THEN heap
    ELSE push_all(heappush(heap, Head(values)), Tail(values))

\* [heapq.heappop(heap) for _ in range(len(heap))]: <<heap afterwards, list>>
RECURSIVE pop_all(_, _)
pop_all(heap, n) ==
    IF n = 0 THEN <<heap, <<>>>>
    ELSE LET p == heappop(heap)
             q == pop_all(p[1], n - 1)
         IN  <<q[1], <<p[2]>> \o q[2]>>

\* key_func is a parameter the body never uses.
heapsort(store, id, k) ==
    LET s1 == Append(store, push_all(<<>>, store[id]))                  \* heap
        h == Len(s1)
        popped == pop_all(s1[h], Len(s1[h]))
        s2 == Append([s1 EXCEPT ![h] = popped[1]], popped[2])
    IN  Ok(s2, Len(s2))

(***************************************************************************)
(* The caller's view of task2.py.  The caller's dataset is list object 1   *)
(* of a store holding nothing else; a call runs on that store, and what    *)
(* the caller can observe afterwards is kept: the contents of its dataset, *)
(* whether the call raised, whether the list returned is the dataset       *)
(* object itself, and the contents of the list returned.                   *)
(***************************************************************************)
Dataset == 1
Clock == {0, 1}     \* time.time() readings

NoRet == [call |-> "none", alg |-> "none", raised |-> FALSE, alias |-> FALSE,
          out |-> <<>>, pair |-> FALSE, elapsed |-> 0]

Returned(call, alg, r, pair, elapsed) ==
    [call |-> call, alg |-> alg, raised |-> r.raised,
     alias |-> (~r.raised /\ r.id = Dataset),
     out |-> IF r.raised THEN <<>> ELSE r.store[r.id],
     pair |-> pair, elapsed |-> elapsed]

Algorithm(alg, store, id, k) ==
    CASE alg = "bubble_sort" -> bubble_sort(store, id, k)
      [] alg = "merge_sort" -> merge_sort(store, id, k)
      [] alg = "quicksort" -> quicksort(store, id, k)
      [] alg = "heapsort" -> heapsort(store, id, k)

BubbleSort ==
    LET r == bubble_sort(<<data>>, Dataset, key)
    IN  /\ data' = r.store[Dataset]
        /\ ret' = Returned("bubble_sort", "bubble_sort", r, FALSE, 0)
        /\ UNCHANGED <<key, graphVars, driverVars>>

MergeSort ==
    LET r == merge_sort(<<data>>, Dataset, key)
    IN  /\ data' = r.store[Dataset]
        /\ ret' = Returned("merge_sort", "merge_sort", r, FALSE, 0)
        /\ UNCHANGED <<key, graphVars, driverVars>>

QuickSort ==
    LET r == quicksort(<<data>>, Dataset, key)
    IN  /\ data' = r.store[Dataset]
        /\ ret' = Returned("quicksort", "quicksort", r, FALSE, 0)
        /\ UNCHANGED <<key, graphVars, driverVars>>

HeapSort ==
    LET r == heapsort(<<data>>, Dataset, key)
    IN  /\ data' = r.store[Dataset]
        /\ ret' = Returned("heapsort", "heapsort", r, FALSE, 0)
        /\ UNCHANGED <<key, graphVars, driverVars>>

\* measure_sorting_algorithms(data): bubble sort, then merge sort, on the
\* same list, by total_amount; the two sorted lists are dropped and only the
\* two durations are returned.  An exception of the first call ends it.
TotalAmount == 2
measure_sorting_algorithms(store, id) ==
    LET b == bubble_sort(store, id, TotalAmount)
    IN  IF b.raised THEN b ELSE merge_sort(b.store, id, TotalAmount)

MeasureSortingAlgorithms ==
    \E t \in Clock :
        LET r == measure_sorting_algorithms(<<data>>, Dataset)
        IN  /\ data' = r.store[Dataset]
            /\ ret' = [Returned("measure_sorting_algorithms", "merge_sort", r,
                                ~r.raised, IF r.raised THEN 0 ELSE t)
                         EXCEPT !.out = <<>>, !.alias = FALSE]
            /\ UNCHANGED <<key, graphVars, driverVars>>

\* time_sorting_algorithm(algorithm, data, key_func): no try/except around the
\* call, so an exception of the algorithm leaves without a return value.
time_sorting_algorithm(algorithm, store, id, k) == Algorithm(algorithm, store, id, k)

TimeSortingAlgorithm ==
    \E algorithm \in {"quicksort", "heapsort"}, start_time \in Clock, end_time \in Clock :
        LET r == time_sorting_algorithm(algorithm, <<data>>, Dataset, key)
        IN  /\ data' = r.store[Dataset]
            /\ ret' = Returned("time_sorting_algorithm", algorithm, r, ~r.raised,
                               IF r.raised THEN 0 ELSE end_time - start_time)
            /\ UNCHANGED <<key, graphVars, driverVars>>

GraphIdle ==
    /\ taxi_data = <<>>
    /\ taxi_zone_lookup = <<>>
    /\ graph = [nodes |-> <<>>, named |-> {}, weight |-> <<>>]
    /\ built = FALSE
    /\ found = [alg |-> "none", components |-> <<>>, pushes |-> 0]

\* The dataset scales, and the drivers before either script runs.
Scales == {"small", "medium", "large"}

DriverIdle ==
    /\ script = "none"
    /\ pc = 0
    /\ datasets = [s \in Scales |-> <<>>]
    /\ graphs = [s \in Scales |-> [nodes |-> <<>>, named |-> {}, weight |-> <<>>]]
    /\ measured = <<>>

SortInit ==
    /\ data \in SeqsUpTo(Records, MaxLen)
    /\ key \in Fields
    /\ ret = NoRet
    /\ GraphIdle
    /\ DriverIdle

SortNext ==
    \/ BubbleSort
    \/ MergeSort
    \/ QuickSort
    \/ HeapSort
    \/ MeasureSortingAlgorithms
    \/ TimeSortingAlgorithm

SortSpec == SortInit /\ [][SortNext]_vars

(***************************************************************************)
(* Properties of the sort library (task2.py), checked under SortSpec.      *)
(***************************************************************************)
SortCalls == {"bubble_sort", "merge_sort", "quicksort", "heapsort"}

\* The last call was a direct call of one of the four sorts and returned a list.
SortReturned == ret.call \in SortCalls /\ ~ret.raised

Count(seq, x) == Cardinality({i \in DOMAIN seq : seq[i] = x})

SameBag(a, b) == \A x \in Range(a) \cup Range(b) : Count(a, x) = Count(b, x)

HasKey(seq, k) == \A i \in DOMAIN seq : ~KeyFails(seq[i], k)

Ordered(seq, k) == \A i \in 1..(Len(seq) - 1) : seq[i][k] <= seq[i + 1][k]

\* The records of seq whose key is v, in the order of seq.
RECURSIVE WithKey(_, _, _)
WithKey(seq, k, v) ==
    IF seq = <<>> THEN <<>>
    ELSE (IF ~KeyFails(Head(seq), k) /\ Head(seq)[k] = v THEN <<Head(seq)>> ELSE <<>>)
             \o WithKey(Tail(seq), k, v)

\* C1: whichever of the four sorts was called, with whichever key selector,
\* the list returned is ordered by that key: key(out[i]) <= key(out[i+1])
\* for all adjacent positions (stated for inputs whose records all have the
\* key).
C1_OrderedByKey ==
    (SortReturned /\ HasKey(ret.out, key)) => Ordered(ret.out, key)

\* C2: a sort that returns a list returns the records of its input, each as
\* often as the input holds it, duplicates included (the input being the
\* dataset as it was when the call was made).
C2_SameRecords ==
    [][(ret'.call \in SortCalls /\ ~ret'.raised) => SameBag(ret'.out, data)]_vars

\* A sort returned three records, two of them the same record, in another
\* order than the input's.
C2_Witness ==
    /\ SortReturned
    /\ Len(ret.out) = 3
    /\ \E i, j \in DOMAIN ret.out : i # j /\ ret.out[i] = ret.out[j]
    /\ ret.out # data

\* C6: bubble_sort and merge_sort keep records with equal keys in the
\* relative order of the input.
C6_Stable ==
    (SortReturned /\ ret.call \in {"bubble_sort", "merge_sort"})
        => \A v \in Vals : WithKey(ret.out, key, v) = WithKey(data, key, v)

\* C7: the list a sort returns is never the caller's input list itself,
\* whatever the input's length.
C7_NewList == SortReturned => ~ret.alias

\* C8: no call of a sort, of measure_sorting_algorithms or of
\* time_sorting_algorithm changes the contents of the dataset it is given, so
\* the dataset is always the one the first call saw.
C8_InputUnmodified == [][data' = data]_vars

\* measure_sorting_algorithms ran bubble sort and then merge sort on a
\* dataset that is not in order of total_amount.
C8_Witness ==
    /\ ret.call = "measure_sorting_algorithms"
    /\ ~ret.raised
    /\ \E i \in 1..(Len(data) - 1) : data[i][TotalAmount] > data[i + 1][TotalAmount]

\* C10: when the key selector fails for a record of the input, a run through
\* time_sorting_algorithm ends with the failure raised to the caller and
\* returns no (duration, result) pair (stated for inputs of two records or
\* more, which cannot be ordered without reading a key).
C10_KeyFailureRaised ==
    (ret.call = "time_sorting_algorithm" /\ ~HasKey(data, key) /\ Len(data) >= 2)
        => (ret.raised /\ ~ret.pair)

(***************************************************************************)
(* task3.py: the networkx graph.  nodes is the node dict in insertion      *)
(* order, named the nodes carrying a name attribute, weight the weight     *)
(* attribute of each edge; an edge of an undirected graph is the set of    *)
(* its endpoints, so (u, v) and (v, u) are one edge and a self-loop is     *)
(* {u}.                                                                    *)
(***************************************************************************)
EmptyGraph == [nodes |-> <<>>, named |-> {}, weight |-> <<>>]       \* nx.Graph()

InsertNode(nodes, n) == IF n \in Range(nodes) THEN nodes ELSE Append(nodes, n)

\* graph.add_node(zone_id, name=zone_name)
add_node(g, n) ==
    [g EXCEPT !.nodes = InsertNode(@, n), !.named = @ \cup {n}]

\* graph.add_edge(u, v, weight=w): the endpoints become nodes, and the weight
\* attribute of the edge is set to w, whatever it was.
add_edge(g, u, v, w) ==
    [g EXCEPT !.nodes = InsertNode(InsertNode(@, u), v),
              !.weight = [e \in DOMAIN g.weight \cup {{u, v}} |->
                             IF e = {u, v} THEN w ELSE g.weight[e]]]

\* graph.neighbors(n)
neighbors(g, n) == {m \in Range(g.nodes) : {n, m} \in DOMAIN g.weight}

\* The id read from a column that is not a number; ids read are >= 0.
None == -1

\* Mutant: the test is "is not None", which lets the id 0 through.
Truthy_not_none(x) == x # None

\* Python truth of a location id: None and 0 are false.
Truthy(x) == x # None /\ x # 0

\* trip_counts, a dict in insertion order: a sequence of <<pickup, dropoff, count>>.
RECURSIVE count_trips(_, _)
count_trips(pairs, trip_counts) ==
    IF pairs = <<>> THEN trip_counts
    ELSE LET pickup == Head(pairs)[1]
             dropoff == Head(pairs)[2]
             at == {i \in DOMAIN trip_counts :
                       trip_counts[i][1] = pickup /\ trip_counts[i][2] = dropoff}
             counted ==
                 IF ~(Truthy(pickup) /\ Truthy(dropoff)) THEN trip_counts
                 ELSE IF at = {} THEN Append(trip_counts, <<pickup, dropoff, 1>>)
                 ELSE [trip_counts EXCEPT ![CHOOSE i \in at : TRUE][3] = @ + 1]
         IN  count_trips(Tail(pairs), counted)

RECURSIVE add_nodes(_, _)
add_nodes(g, lookup) ==
    IF lookup = <<>> THEN g
    ELSE add_nodes(add_node(g, Head(lookup)), Tail(lookup))

RECURSIVE add_edges(_, _)
add_edges(g, trip_counts) ==
    IF trip_counts = <<>> THEN g
    ELSE LET t == Head(trip_counts)
         IN  add_edges(add_edge(g, t[1], t[2], t[3]), Tail(trip_counts))

\* Mutant: the loop that adds the zones of the lookup as nodes is missing.
build_graph_edges_only(pairs, lookup) ==
    add_edges(EmptyGraph, count_trips(pairs, <<>>))

build_graph(pairs, lookup) ==
    add_edges(add_nodes(EmptyGraph, lookup), count_trips(pairs, <<>>))

(***************************************************************************)
(* Connected components.                                                   *)
(***************************************************************************)
\* The nodes a path of edges connects to a node of S.
RECURSIVE Closure(_, _)
Closure(g, S) ==
    LET T == S \cup UNION {neighbors(g, n) : n \in S}
    IN  IF T = S THEN S ELSE Closure(g, T)

\* list(nx.connected_components(graph)): one set per component, in the order
\* in which graph.nodes first meets it.
RECURSIVE nx_components(_, _, _)
nx_components(g, i, seen) ==
    IF i > Len(g.nodes) THEN <<>>
    ELSE IF g.nodes[i] \in seen THEN nx_components(g, i + 1, seen)
    ELSE LET c == Closure(g, {g.nodes[i]})
         IN  <<c>> \o nx_components(g, i + 1, seen \cup c)

find_connected_components_networkx(g) == nx_components(g, 1, {})

\* The order in which a set of ids is iterated: ascending or descending.
RECURSIVE SetOrder(_, _)
SetOrder(S, asc) ==
    IF S = {} THEN <<>>
    ELSE LET x == CHOOSE y \in S : \A z \in S : IF asc THEN y <= z ELSE y >= z
         IN  <<x>> \o SetOrder(S \ {x}, asc)

\* State of one traversal: the shared visited set, the component being
\* collected, and the number of pushes made so far.
Walk(visited, component, pushes) ==
    [visited |-> visited, component |-> component, pushes |-> pushes]

\* Mutant: neighbours are marked visited when they are pushed.
RECURSIVE dfs_mark_on_push(_, _, _, _)
dfs_mark_on_push(g, stack, w, asc) ==
    IF stack = <<>> THEN w
    ELSE LET current == stack[Len(stack)]
             rest == SubSeq(stack, 1, Len(stack) - 1)
         IN  IF current \notin w.visited
             THEN LET visited == w.visited \cup {current}
                      more == SetOrder(neighbors(g, current) \ visited, asc)
                  IN  dfs_mark_on_push(g, rest \o more,
                          Walk(visited \cup Range(more), Append(w.component, current),
                               w.pushes + Len(more)), asc)
             ELSE dfs_mark_on_push(g, rest, w, asc)

\* The while loop of dfs(node).
RECURSIVE dfs(_, _, _, _)
dfs(g, stack, w, asc) ==
    IF stack = <<>> THEN w
    ELSE LET current == stack[Len(stack)]                               \* stack.pop()
             rest == SubSeq(stack, 1, Len(stack) - 1)
         IN  IF current \notin w.visited
             THEN LET visited == w.visited \cup {current}
                      more == SetOrder(neighbors(g, current) \ visited, asc)
                  IN  dfs(g, rest \o more,
                          Walk(visited, Append(w.component, current),
                               w.pushes + Len(more)), asc)
             ELSE dfs(g, rest, w, asc)

\* Mutant: a node popped from the queue is collected without the visited test.
RECURSIVE bfs_no_test(_, _, _, _)
bfs_no_test(g, queue, w, asc) ==
    IF queue = <<>> THEN w
    ELSE LET current == Head(queue)
             rest == Tail(queue)
             visited == w.visited \cup {current}
             more == SetOrder(neighbors(g, current) \ visited, asc)
         IN  bfs_no_test(g, rest \o more,
                 Walk(visited, Append(w.component, current), w.pushes + Len(more)), asc)

\* The while loop of bfs(node).
RECURSIVE bfs(_, _, _, _)
bfs(g, queue, w, asc) ==
    IF queue = <<>> THEN w
    ELSE LET current == Head(queue)                                     \* queue.popleft()
             rest == Tail(queue)
         IN  IF current \notin w.visited
             THEN LET visited == w.visited \cup {current}
                      more == SetOrder(neighbors(g, current) \ visited, asc)
                  IN  bfs(g, rest \o more,
                          Walk(visited, Append(w.component, current),
                               w.pushes + Len(more)), asc)
             ELSE bfs(g, rest, w, asc)

\* The loop over graph.nodes: <<components, pushes>>.
RECURSIVE components_from(_, _, _, _, _, _)
components_from(g, alg, i, visited, pushes, asc) ==
    IF i > Len(g.nodes) THEN [components |-> <<>>, pushes |-> pushes]
    ELSE IF g.nodes[i] \in visited THEN components_from(g, alg, i + 1, visited, pushes, asc)
    ELSE LET start == Walk(visited, <<>>, pushes + 1)
             w == IF alg = "dfs" THEN dfs(g, <<g.nodes[i]>>, start, asc)
                                 ELSE bfs(g, <<g.nodes[i]>>, start, asc)
             later == components_from(g, alg, i + 1, w.visited, w.pushes, asc)
         IN  [components |-> <<w.component>> \o later.components, pushes |-> later.pushes]

find_connected_components_dfs(g, asc) == components_from(g, "dfs", 1, {}, 0, asc)

find_connected_components_bfs(g, asc) == components_from(g, "bfs", 1, {}, 0, asc)

(***************************************************************************)
(* The caller's view of task3.py.                                          *)
(***************************************************************************)
NoFound == [alg |-> "none", components |-> <<>>, pushes |-> 0]

BuildGraph ==
    /\ ~built
    /\ graph' = build_graph(taxi_data, taxi_zone_lookup)
    /\ built' = TRUE
    /\ UNCHANGED <<taxi_data, taxi_zone_lookup, found, sortVars, driverVars>>

FindNetworkx ==
    /\ built
    /\ found' = [alg |-> "networkx",
                 components |-> find_connected_components_networkx(graph),
                 pushes |-> 0]
    /\ UNCHANGED <<taxi_data, taxi_zone_lookup, graph, built, sortVars, driverVars>>

FindDFS ==
    /\ built
    /\ \E asc \in BOOLEAN :
          LET r == find_connected_components_dfs(graph, asc)
          IN  found' = [alg |-> "dfs", components |-> r.components, pushes |-> r.pushes]
    /\ UNCHANGED <<taxi_data, taxi_zone_lookup, graph, built, sortVars, driverVars>>

FindBFS ==
    /\ built
    /\ \E asc \in BOOLEAN :
          LET r == find_connected_components_bfs(graph, asc)
          IN  found' = [alg |-> "bfs", components |-> r.components, pushes |-> r.pushes]
    /\ UNCHANGED <<taxi_data, taxi_zone_lookup, graph, built, sortVars, driverVars>>

\* What read_nyc_taxi_data can return, over two location ids: pairs of ids,
\* and pairs with a None (a non-numeric column) or a 0 in one place.
Zones == {1, 2}
Pairs ==
    (Zones \X Zones) \cup {<<None, 2>>, <<2, None>>, <<0, 2>>, <<2, 0>>}

\* What read_taxi_zone_lookup can return: the file lists ids 1..n in order.
Lookups == {[i \in 1..n |-> i] : n \in {0} \cup Zones}

SortIdle == data = <<>> /\ key = 1 /\ ret = NoRet

GraphInit ==
    /\ taxi_data \in SeqsUpTo(Pairs, MaxPairs)
    /\ taxi_zone_lookup \in Lookups
    /\ graph = EmptyGraph
    /\ built = FALSE
    /\ found = NoFound
    /\ SortIdle
    /\ DriverIdle

GraphNext ==
    \/ BuildGraph
    \/ FindNetworkx
    \/ FindDFS
    \/ FindBFS

GraphSpec == GraphInit /\ [][GraphNext]_vars

\* Every undirected graph on some of the ids 1..MaxNode, self-loops
\* included, its nodes inserted in ascending or in descending order.
EdgesOn(S) == {{a, b} : a \in S, b \in S}
Graphs ==
    UNION {{[nodes |-> SetOrder(S, asc), named |-> S, weight |-> [e \in E |-> 1]] :
               asc \in BOOLEAN, E \in SUBSET EdgesOn(S)} : S \in SUBSET (1..MaxNode)}

ConnInit ==
    /\ graph \in Graphs
    /\ built = TRUE
    /\ taxi_data = <<>>
    /\ taxi_zone_lookup = <<>>
    /\ found = NoFound
    /\ SortIdle
    /\ DriverIdle

ConnNext ==
    \/ FindNetworkx
    \/ FindDFS
    \/ FindBFS

ConnSpec == ConnInit /\ [][ConnNext]_vars

(***************************************************************************)
(* Properties of the graph builder and the connectivity algorithms         *)
(* (task3.py), checked under ConnSpec (any graph) and GraphSpec (the graph *)
(* built from the pairs and the lookup).                                   *)
(***************************************************************************)
Traversed == found.alg \in {"dfs", "bfs"}

Nodes == Range(graph.nodes)

\* The node sets of the components returned by the DFS or the BFS.
Members == {Range(found.components[i]) : i \in DOMAIN found.components}

\* C3: the DFS and the BFS return the component membership of the reference
\* traversal: two nodes are in the same returned component exactly when a
\* path of edges connects them.
C3_SameMembership ==
    Traversed =>
        /\ Members = Range(find_connected_components_networkx(graph))
        /\ \A a, b \in Nodes :
              (\E c \in Members : a \in c /\ b \in c) <=> (b \in Closure(graph, {a}))

\* The BFS or DFS ran on a graph of three nodes with a self-loop, an edge
\* between two nodes and a node without edges.
C3_Witness ==
    /\ Traversed
    /\ Len(graph.nodes) = 3
    /\ \E a, b, c \in Nodes :
          /\ a # b /\ b # c /\ a # c
          /\ {a} \in DOMAIN graph.weight
          /\ {a, b} \in DOMAIN graph.weight
          /\ neighbors(graph, c) = {}
    /\ Len(found.components) = 2

\* The places <<component, position>> at which node n is listed.
Places(n) ==
    {ip \in (DOMAIN found.components) \X (1..(Len(graph.nodes) + found.pushes)) :
        /\ ip[2] <= Len(found.components[ip[1]])
        /\ found.components[ip[1]][ip[2]] = n}

\* C4: the components returned by the DFS and by the BFS are pairwise
\* disjoint, list each node exactly once, and together hold every node of
\* the graph and nothing else.
C4_Partition ==
    Traversed =>
        /\ \A i, j \in DOMAIN found.components :
              i # j => Range(found.components[i]) \cap Range(found.components[j]) = {}
        /\ \A n \in Nodes : Cardinality(Places(n)) = 1
        /\ UNION Members = Nodes

\* A traversal of a triangle, in which a node was pushed while it was
\* already waiting on the stack or queue.
C4_Witness ==
    /\ Traversed
    /\ Len(graph.nodes) = 3
    /\ \A a, b \in Nodes : a # b => {a, b} \in DOMAIN graph.weight
    /\ found.pushes > Len(graph.nodes)

\* The pairs of taxi_data with both ids true.
Counted == {i \in DOMAIN taxi_data : Truthy(taxi_data[i][1]) /\ Truthy(taxi_data[i][2])}

\* C5: the weight of the edge between a and b is the number of pairs whose
\* unordered endpoints are {a, b}, in either direction.
C5_WeightIsCount ==
    built =>
        \A e \in DOMAIN graph.weight :
            graph.weight[e] =
                Cardinality({i \in Counted : {taxi_data[i][1], taxi_data[i][2]} = e})

\* No counted pair has z as an endpoint.
Isolated(z) == \A i \in Counted : z # taxi_data[i][1] /\ z # taxi_data[i][2]

\* C9: every id of the name mapping is a node of the built graph, and one
\* that no counted pair mentions is a component of its own in the result of
\* the DFS and of the BFS.
C9_ZonesAreNodes ==
    built =>
        /\ Range(taxi_zone_lookup) \subseteq Nodes
        /\ Traversed =>
              \A z \in Range(taxi_zone_lookup) :
                  Isolated(z) => \E i \in DOMAIN found.components :
                                     found.components[i] = <<z>>

\* A traversal of a built graph that has an edge and a zone of the lookup
\* that only a pair with a None names.
C9_Witness ==
    /\ built
    /\ Traversed
    /\ DOMAIN graph.weight # {}
    /\ \E z \in Range(taxi_zone_lookup) :
          /\ Isolated(z)
          /\ \E i \in DOMAIN taxi_data : taxi_data[i] = <<z, None>>

\* The orders in which the batch taxi_data can be handed over.
Reorderings(seq) ==
    {[i \in DOMAIN seq |-> seq[p[i]]] :
        p \in {q \in [DOMAIN seq -> DOMAIN seq] : Range(q) = DOMAIN seq}}

\* Same node set, same edge set, same weight on every edge.
SameGraph(g, h) ==
    /\ Range(g.nodes) = Range(h.nodes)
    /\ DOMAIN g.weight = DOMAIN h.weight
    /\ \A e \in DOMAIN g.weight : g.weight[e] = h.weight[e]

\* C12: the graph built from the batch is the graph built from any
\* reordering of the batch: same nodes, same edges, same weight on every
\* edge.
C12_OrderIndependent ==
    built =>
        \A other \in Reorderings(taxi_data) :
            SameGraph(graph, build_graph(other, taxi_zone_lookup))

\* The ids of the pairs whose pickup and dropoff are both present and not 0.
Endpoints ==
    UNION {{taxi_data[i][1], taxi_data[i][2]} :
              i \in {j \in DOMAIN taxi_data :
                        /\ taxi_data[j][1] \notin {None, 0}
                        /\ taxi_data[j][2] \notin {None, 0}}}

\* C13: the nodes of the built graph are the ids of the name mapping and the
\* endpoints of the pairs with both ids present and not 0, and no others;
\* the nodes carrying a name are the ids of the mapping, so an endpoint
\* outside the mapping is a node without a name.
C13_NodeSet ==
    built =>
        /\ Nodes = Range(taxi_zone_lookup) \cup Endpoints
        /\ graph.named = Range(taxi_zone_lookup)

\* A built graph whose batch had a pair with a None and a pair with a 0,
\* neither of which made its other id a node, and a counted pair whose id is
\* not in the mapping and is a node without a name.
C13_Witness ==
    /\ built
    /\ \E i, j \in DOMAIN taxi_data :
          /\ None \in Range(taxi_data[i])
          /\ 0 \in Range(taxi_data[j])
          /\ Range(taxi_data[i]) \cap Nodes = {}
          /\ Range(taxi_data[j]) \cap Nodes = {}
    /\ \E n \in Nodes : n \notin Range(taxi_zone_lookup) /\ n \notin graph.named

(***************************************************************************)
(* The module-level drivers.  task2.py loads the three files and times     *)
(* quicksort and heapsort for each scale, then bubble and merge sort;      *)
(* task3.py builds the three graphs, stores the library's components and   *)
(* compares the three connectivity algorithms on each.  A measurement is   *)
(* kept with the algorithm, the scale under whose name it is stored or     *)
(* printed, the scale of the argument the call was given, and what the run *)
(* that was timed produced.                                                *)
(***************************************************************************)
Measurement(alg, scale, ran_on, out) ==
    [alg |-> alg, scale |-> scale, ran_on |-> ran_on, out |-> out]

Call(alg, scale, arg) == [alg |-> alg, scale |-> scale, arg |-> arg]

\* qs_time_<scale>, hs_time_<scale>: the six time_sorting_algorithm calls,
\* with the list each is given.
TimedCalls ==
    << Call("quicksort", "small", "small"),
       Call("heapsort", "small", "small"),
       Call("quicksort", "medium", "medium"),
       Call("heapsort", "medium", "small"),
       Call("quicksort", "large", "large"),
       Call("heapsort", "large", "small") >>

\* bubble_time_<scale>, merge_time_<scale>: the three
\* measure_sorting_algorithms calls.
MeasureCalls == <<"small", "medium", "large">>

\* components_<scale>, then compare_performance(graph_<scale>).
GraphCalls == <<"small", "medium", "large">>

\* key_func=lambda x: x[3], the total_amount of a trip.
TimedSort ==
    /\ script = "task2"
    /\ pc \in DOMAIN TimedCalls
    /\ LET c == TimedCalls[pc]
           r == time_sorting_algorithm(c.alg, <<datasets[c.arg]>>, Dataset, TotalAmount)
       IN  /\ datasets' = [datasets EXCEPT ![c.arg] = r.store[Dataset]]
           /\ IF r.raised
              THEN /\ script' = "raised"
                   /\ UNCHANGED <<pc, measured>>
              ELSE /\ measured' = Append(measured,
                                         Measurement(c.alg, c.scale, c.arg, r.store[r.id]))
                   /\ pc' = pc + 1
                   /\ UNCHANGED script
    /\ UNCHANGED <<graphs, sortVars, graphVars>>

MeasureSorts ==
    /\ script = "task2"
    /\ pc - Len(TimedCalls) \in DOMAIN MeasureCalls
    /\ LET scale == MeasureCalls[pc - Len(TimedCalls)]
           b == bubble_sort(<<datasets[scale]>>, Dataset, TotalAmount)
           m == IF b.raised THEN b ELSE merge_sort(b.store, Dataset, TotalAmount)
       IN  /\ datasets' = [datasets EXCEPT ![scale] = m.store[Dataset]]
           /\ IF m.raised
              THEN /\ script' = "raised"
                   /\ UNCHANGED <<pc, measured>>
              ELSE /\ measured' =
                          measured
                              \o << Measurement("bubble_sort", scale, scale, b.store[b.id]),
                                    Measurement("merge_sort", scale, scale, m.store[m.id]) >>
                   /\ pc' = pc + 1
                   /\ UNCHANGED script
    /\ UNCHANGED <<graphs, sortVars, graphVars>>

StoreComponents ==
    /\ script = "task3"
    /\ pc \in DOMAIN GraphCalls
    /\ LET scale == GraphCalls[pc]
       IN  measured' = Append(measured,
                              Measurement("networkx", scale, scale,
                                          find_connected_components_networkx(graphs[scale])))
    /\ pc' = pc + 1
    /\ UNCHANGED <<script, datasets, graphs, sortVars, graphVars>>

ComparePerformance ==
    /\ script = "task3"
    /\ pc - Len(GraphCalls) \in DOMAIN GraphCalls
    /\ \E dfs_asc \in BOOLEAN, bfs_asc \in BOOLEAN :
          LET scale == GraphCalls[pc - Len(GraphCalls)]
              g == graphs[scale]
          IN  measured' =
                  measured
                      \o << Measurement("networkx", scale, scale,
                                        find_connected_components_networkx(g)),
                            Measurement("dfs", scale, scale,
                                        find_connected_components_dfs(g, dfs_asc).components),
                            Measurement("bfs", scale, scale,
                                        find_connected_components_bfs(g, bfs_asc).components) >>
    /\ pc' = pc + 1
    /\ UNCHANGED <<script, datasets, graphs, sortVars, graphVars>>

\* What the loaders hand to the drivers: for task2.py up to MaxLen trips per
\* file, each with total_amount and one other field; for task3.py the graph
\* built from the pairs of each file.
Trips == {<<1, 2>>, <<2, 1>>}
BuiltGraphs ==
    {build_graph(pairs, <<1, 2>>) : pairs \in {<<>>, <<<<1, 2>>>>, <<<<2, 2>>, <<0, 2>>>>}}

DriverInit ==
    /\ \/ /\ script = "task2"
          /\ datasets \in [Scales -> SeqsUpTo(Trips, MaxLen)]
          /\ graphs = [s \in Scales |-> EmptyGraph]
       \/ /\ script = "task3"
          /\ datasets = [s \in Scales |-> <<>>]
          /\ graphs \in [Scales -> BuiltGraphs]
    /\ pc = 1
    /\ measured = <<>>
    /\ SortIdle
    /\ GraphIdle

DriverNext ==
    \/ TimedSort
    \/ MeasureSorts
    \/ StoreComponents
    \/ ComparePerformance

DriverSpec == DriverInit /\ [][DriverNext]_vars

\* What running the algorithm on the data of the scale gives: the sorted
\* list, or the node sets of the components.
OnOwnData(m) ==
    IF m.alg \in SortCalls
    THEN LET r == Algorithm(m.alg, <<datasets[m.scale]>>, Dataset, TotalAmount)
         IN  m.out = r.store[r.id]
    ELSE {IF m.alg = "networkx" THEN c ELSE Range(c) : c \in Range(m.out)}
             = Range(find_connected_components_networkx(graphs[m.scale]))

\* C11: every measurement recorded for an algorithm and a scale comes from
\* running that algorithm on that scale's own data: what the timed run
\* produced is the algorithm's result on the dataset (or graph) of the scale
\* the measurement is stored under.
C11_OwnScale == \A i \in DOMAIN measured : OnOwnData(measured[i])

====
